---- MODULE Spec2Model ----
(***************************************************************************)
(* A model of the deephyper glue code:                                     *)
(*   - BalsamEvaluator (deephyper/evaluators/_balsam.py): registration of  *)
(*     the ApplicationDefinition in the constructor, task submission and   *)
(*     the done / fail callbacks;                                          *)
(*   - run() of the bAbI benchmark (benchmarks/b3/babi_rnn.py): checkpoint *)
(*     naming and resumption;                                              *)
(*   - LazyImport (deephyper/problem/__init__.py): the lazy namespace.     *)
(* Each part has its own specification over the shared variables.          *)
(***************************************************************************)
EXTENDS Integers, Sequences, FiniteSets, TLC

VARIABLES
    \* ---- BalsamEvaluator -------------------------------------------------
    registry,      \* AppDef table: application name -> number of rows with that name
    pc,            \* per process: position of the constructor running on it
    ctor,          \* per process: run function of the constructor in progress
    raised,        \* per process: outcome of the last constructor call
    evaluators,    \* per process: appName -> number of evaluators obtained
    lookups,       \* per process: appName -> number of AppDef.objects.get calls made
    created,       \* per process: appName -> number of rows its save() calls inserted
    jobs,          \* the launcher's job table, in order of dag.add_job
    lastCall,      \* the last _eval_exec call: its argument x and what dag.add_job got
    \* ---- babi_rnn.run ----------------------------------------------------
    fs,            \* the files of the working directory: name -> content
    runs,          \* number of completed run() calls
    lastRun,       \* what the last run() call did
    pair,          \* two configurations whose file names are compared
    named,         \* the file names run() computes for the two
    \* ---- LazyImport ------------------------------------------------------
    cache,         \* LazyImport.cache: name -> cached attribute
    sys_modules,   \* sys.modules: full names of the imported submodules
    executed,      \* submodule -> number of times its code was executed
    accesses       \* the attribute accesses made on the shim, with their answers

balsamVars == <<registry, pc, ctor, raised, evaluators, lookups, created, jobs, lastCall>>
runVars    == <<fs, runs, lastRun, pair, named>>
lazyVars   == <<cache, sys_modules, executed, accesses>>
vars       == <<balsamVars, runVars, lazyVars>>

None == [ none |-> TRUE ]

(***************************************************************************)
(* Bounds of the model.                                                    *)
(***************************************************************************)
NumProcs         == 2   \* processes that build evaluators against the shared database
MaxConstructions == 3   \* constructor calls, all processes together
MaxJobs          == 1   \* jobs added to the launcher
MaxOverride      == 2   \* resource values a configuration may carry: 2..MaxOverride
MaxRuns          == 3   \* completed run() calls
MaxEpochUnits    == 2   \* epochs requested: 5, 10, .. 5 * MaxEpochUnits
MaxAccesses      == 4   \* attribute accesses on the problem namespace

Procs == 1..NumProcs

(***************************************************************************)
(* BalsamEvaluator                                                         *)
(***************************************************************************)

\* The run functions evaluators are built for: (module, function) pairs.
RunFunctions ==
    { [module |-> "babi_rnn", name |-> "run"],
      [module |-> "mnist_nas", name |-> "run"] }

\* _init_app: self.appName = '.'.join((moduleName, funcName))
AppName(f) == f.module \o "." \o f.name

AppNames == { AppName(f) : f \in RunFunctions }

\* Evaluator.WORKERS_PER_NODE, read by _eval_exec for node_packing_count.
WORKERS_PER_NODE == 4

ResourceKeys == {"num_nodes", "ranks_per_node", "threads_per_rank", "node_packing_count"}

\* _eval_exec: the resources dict as first built.
DefaultResources ==
    [ num_nodes          |-> 1,
      ranks_per_node     |-> 1,
      threads_per_rank   |-> 64,
      node_packing_count |-> WORKERS_PER_NODE ]

\* Mutant of Resources: the override loop is lost.
ResourcesIgnoreConfig(x) == DefaultResources

\* _eval_exec: for key in resources: if key in x: resources[key] = x[key]
Resources(x) ==
    [ key \in DOMAIN DefaultResources |->
        IF key \in DOMAIN x THEN x[key] ELSE DefaultResources[key] ]

\* _eval_exec: wf = dag.current_job.workflow if dag.current_job is not None else appName
Workflow(current_job, appName) ==
    IF current_job # None THEN current_job.workflow ELSE appName

\* The keyword arguments dag.add_job receives from _eval_exec (the job name, taken
\* from the base class's counter, and the environment string do not vary here).
AddJobArgs(appName, x, current_job) ==
    [ workflow    |-> Workflow(current_job, appName),
      application |-> appName,
      args        |-> <<"'", "encode", x, "'">>,
      resources   |-> Resources(x) ]

\* The configuration as _eval_exec leaves it: no statement of it writes to x.
ConfigAfter(x) == x

\* Evaluator.FAIL_RETURN_VALUE, the sentinel objective of a failed task.
FAIL_RETURN_VALUE == <<"Evaluator", "FAIL_RETURN_VALUE">>

\* Evaluator._parse on a job output holding the line "OUTPUT: <v>".
Parse(output) == <<"float", output>>

\* _on_done(job, process_data): reads <job.name>.out and parses it.
OnDone(job) == [ value |-> Parse(job.output), raises |-> FALSE ]

\* Mutant of OnFail: the log line raises, so no value is returned.
OnFailRaises(job) == [ value |-> None, raises |-> TRUE ]

\* _on_fail(job): logs and returns the sentinel.
OnFail(job) == [ value |-> FAIL_RETURN_VALUE, raises |-> FALSE ]

\* What the FutureTask built by _eval_exec yields for a job that ended: the launcher
\* calls fail_callback for a failed job and the done callback for a finished one.
FutureResult(job) ==
    IF job.state = "FAILED"
    THEN [ callback |-> "_on_fail", value |-> OnFail(job).value, raises |-> OnFail(job).raises ]
    ELSE [ callback |-> "_on_done", value |-> OnDone(job).value, raises |-> OnDone(job).raises ]

\* The configurations handed to _eval_exec: a mapping from some keys to values.
OtherKeys    == {"epochs"}
ConfigKeys   == ResourceKeys \cup OtherKeys
ConfigValues == 2..MaxOverride
Configs      == UNION { [D -> ConfigValues] : D \in SUBSET ConfigKeys }

\* The configurations that carry no resource key.
PlainConfigs == UNION { [D -> ConfigValues] : D \in SUBSET OtherKeys }

\* dag.current_job: None outside a launcher job, else a job with a workflow.
CurrentJobs == { None, [workflow |-> "parent_wf"] }

\* The objectives a finished job may print.
Outputs == {-73, 0}

\* The exceptions AppDef.objects.get can raise besides ObjectDoesNotExist.
GetErrors(n) ==
    {"OperationalError"} \cup (IF registry[n] > 1 THEN {"MultipleObjectsReturned"} ELSE {})

Zero == [ n \in AppNames |-> 0 ]

\* Constructor calls process p has started.
Started(p) ==
    LET Sum[S \in SUBSET AppNames] ==
            IF S = {} THEN 0
            ELSE LET n == CHOOSE m \in S : TRUE IN lookups[p][n] + Sum[S \ {n}]
    IN  Sum[AppNames] + (IF pc[p] = "get" THEN 1 ELSE 0)

\* Constructor calls started on all processes.
StartedAll ==
    LET Sum[S \in SUBSET Procs] ==
            IF S = {} THEN 0
            ELSE LET q == CHOOSE m \in S : TRUE IN Started(q) + Sum[S \ {q}]
    IN  Sum[Procs]

BalsamInit ==
    /\ registry   = Zero
    /\ pc         = [ p \in Procs |-> "idle" ]
    /\ ctor       = [ p \in Procs |-> None ]
    /\ raised     = [ p \in Procs |-> "none" ]
    /\ evaluators = [ p \in Procs |-> Zero ]
    /\ lookups    = [ p \in Procs |-> Zero ]
    /\ created    = [ p \in Procs |-> Zero ]
    /\ jobs       = << >>
    /\ lastCall   = None

\* __init__ up to the call of _init_app, which computes self.appName.
Construct(p, f) ==
    /\ pc[p] = "idle"
    /\ StartedAll < MaxConstructions
    /\ pc'     = [ pc EXCEPT ![p] = "get" ]
    /\ ctor'   = [ ctor EXCEPT ![p] = f ]
    /\ raised' = [ raised EXCEPT ![p] = "none" ]
    /\ UNCHANGED <<registry, evaluators, lookups, created, jobs, lastCall>>
    /\ UNCHANGED <<runVars, lazyVars>>

\* The constructor returns: the caller holds one more evaluator for appName.
Obtained(p, n) ==
    /\ pc'         = [ pc EXCEPT ![p] = "idle" ]
    /\ ctor'       = [ ctor EXCEPT ![p] = None ]
    /\ raised'     = [ raised EXCEPT ![p] = "ok" ]
    /\ evaluators' = [ evaluators EXCEPT ![p][n] = @ + 1 ]

\* An exception leaves _init_app and __init__: the caller gets no evaluator.
Propagates(p, err) ==
    /\ pc'     = [ pc EXCEPT ![p] = "idle" ]
    /\ ctor'   = [ ctor EXCEPT ![p] = None ]
    /\ raised' = [ raised EXCEPT ![p] = err ]
    /\ UNCHANGED evaluators

\* Mutant of GetFound: the app found is saved again as a new row.
GetFoundCreates(p) ==
    /\ pc[p] = "get"
    /\ registry[AppName(ctor[p])] = 1
    /\ lookups'  = [ lookups EXCEPT ![p][AppName(ctor[p])] = @ + 1 ]
    /\ registry' = [ registry EXCEPT ![AppName(ctor[p])] = @ + 1 ]
    /\ created'  = [ created EXCEPT ![p][AppName(ctor[p])] = @ + 1 ]
    /\ Obtained(p, AppName(ctor[p]))
    /\ UNCHANGED <<jobs, lastCall>>
    /\ UNCHANGED <<runVars, lazyVars>>

\* _init_app: AppDef.objects.get(name=self.appName) returns the app (else branch).
GetFound(p) ==
    /\ pc[p] = "get"
    /\ registry[AppName(ctor[p])] = 1
    /\ lookups' = [ lookups EXCEPT ![p][AppName(ctor[p])] = @ + 1 ]
    /\ Obtained(p, AppName(ctor[p]))
    /\ UNCHANGED <<registry, created, jobs, lastCall>>
    /\ UNCHANGED <<runVars, lazyVars>>

\* Mutant of GetDoesNotExist: the except branch is entered whatever the table holds.
GetReportsNone(p) ==
    /\ pc[p] = "get"
    /\ lookups' = [ lookups EXCEPT ![p][AppName(ctor[p])] = @ + 1 ]
    /\ pc'      = [ pc EXCEPT ![p] = "save" ]
    /\ UNCHANGED <<registry, ctor, raised, evaluators, created, jobs, lastCall>>
    /\ UNCHANGED <<runVars, lazyVars>>

\* _init_app: the lookup raises ObjectDoesNotExist; the except branch is entered.
GetDoesNotExist(p) ==
    /\ pc[p] = "get"
    /\ registry[AppName(ctor[p])] = 0
    /\ lookups' = [ lookups EXCEPT ![p][AppName(ctor[p])] = @ + 1 ]
    /\ pc'      = [ pc EXCEPT ![p] = "save" ]
    /\ UNCHANGED <<registry, ctor, raised, evaluators, created, jobs, lastCall>>
    /\ UNCHANGED <<runVars, lazyVars>>

\* Mutant of GetRaises: every exception of the lookup is caught as "not found".
GetRaisesCreates(p) ==
    /\ pc[p] = "get"
    /\ GetErrors(AppName(ctor[p])) # {}
    /\ lookups' = [ lookups EXCEPT ![p][AppName(ctor[p])] = @ + 1 ]
    /\ pc'      = [ pc EXCEPT ![p] = "save" ]
    /\ UNCHANGED <<registry, ctor, raised, evaluators, created, jobs, lastCall>>
    /\ UNCHANGED <<runVars, lazyVars>>

\* _init_app: the lookup raises something else, which no except clause catches.
GetRaises(p) ==
    /\ pc[p] = "get"
    /\ \E err \in GetErrors(AppName(ctor[p])) : Propagates(p, err)
    /\ lookups' = [ lookups EXCEPT ![p][AppName(ctor[p])] = @ + 1 ]
    /\ UNCHANGED <<registry, created, jobs, lastCall>>
    /\ UNCHANGED <<runVars, lazyVars>>

\* _init_app, except branch: app = AppDef(name=..., executable=...); app.save()
\* inserts one row.
Save(p) ==
    /\ pc[p] = "save"
    /\ registry' = [ registry EXCEPT ![AppName(ctor[p])] = @ + 1 ]
    /\ created'    = [ created EXCEPT ![p][AppName(ctor[p])] = @ + 1 ]
    /\ Obtained(p, AppName(ctor[p]))
    /\ UNCHANGED <<lookups, jobs, lastCall>>
    /\ UNCHANGED <<runVars, lazyVars>>

\* Mutant of SaveRaises: the failure of save() is swallowed and the constructor returns.
SaveRaisesSwallowed(p) ==
    /\ pc[p] = "save"
    /\ Obtained(p, AppName(ctor[p]))
    /\ UNCHANGED <<registry, lookups, created, jobs, lastCall>>
    /\ UNCHANGED <<runVars, lazyVars>>

\* _init_app, except branch: app.save() raises; nothing is inserted.
SaveRaises(p) ==
    /\ pc[p] = "save"
    /\ Propagates(p, "IntegrityError")
    /\ UNCHANGED <<registry, lookups, created, jobs, lastCall>>
    /\ UNCHANGED <<runVars, lazyVars>>

\* _eval_exec(x) on an evaluator process p holds for application n.
EvalExec(p, n, x, current_job) ==
    /\ evaluators[p][n] > 0
    /\ Len(jobs) < MaxJobs
    /\ jobs' = Append(jobs, [ application |-> n, state |-> "CREATED",
                              output |-> None, result |-> None ])
    /\ lastCall' = [ by |-> p, x_before |-> x, x_after |-> ConfigAfter(x),
                     add_job |-> AddJobArgs(n, x, current_job) ]
    /\ UNCHANGED <<registry, pc, ctor, raised, evaluators, lookups, created>>
    /\ UNCHANGED <<runVars, lazyVars>>

\* The launcher starts a job.
JobStart(j) ==
    /\ jobs[j].state = "CREATED"
    /\ jobs' = [ jobs EXCEPT ![j].state = "RUNNING" ]
    /\ UNCHANGED <<registry, pc, ctor, raised, evaluators, lookups, created, lastCall>>
    /\ UNCHANGED <<runVars, lazyVars>>

\* A running job ends normally, having written its output file.
JobFinish(j, out) ==
    /\ jobs[j].state = "RUNNING"
    /\ jobs' = [ jobs EXCEPT ![j].state = "JOB_FINISHED", ![j].output = out ]
    /\ UNCHANGED <<registry, pc, ctor, raised, evaluators, lookups, created, lastCall>>
    /\ UNCHANGED <<runVars, lazyVars>>

\* A running job fails.
JobFail(j) ==
    /\ jobs[j].state = "RUNNING"
    /\ jobs' = [ jobs EXCEPT ![j].state = "FAILED" ]
    /\ UNCHANGED <<registry, pc, ctor, raised, evaluators, lookups, created, lastCall>>
    /\ UNCHANGED <<runVars, lazyVars>>

\* The future of an ended job is resolved through the callbacks _eval_exec gave it.
FutureResolve(j) ==
    /\ jobs[j].state \in {"JOB_FINISHED", "FAILED"}
    /\ jobs[j].result = None
    /\ jobs' = [ jobs EXCEPT ![j].result = FutureResult(jobs[j]) ]
    /\ UNCHANGED <<registry, pc, ctor, raised, evaluators, lookups, created, lastCall>>
    /\ UNCHANGED <<runVars, lazyVars>>

(***************************************************************************)
(* babi_rnn.run                                                            *)
(*                                                                         *)
(* A param_dict is a Python dict: a sequence of <<key, value>> pairs in    *)
(* insertion order, no key twice.  A value is an int, [int |-> n], or a    *)
(* string, [str |-> pieces], the pieces being the parts it is made of.     *)
(***************************************************************************)
BNAME == "babi_rnn"

Digits == <<"0", "1", "2", "3", "4", "5", "6", "7", "8", "9">>

\* str(n) of an int n >= 0.
RECURSIVE IntToStr(_)
IntToStr(n) ==
    IF n < 10 THEN Digits[n + 1] ELSE IntToStr(n \div 10) \o Digits[(n % 10) + 1]

\* The text of a string value.
RECURSIVE Join(_)
Join(pieces) == IF pieces = << >> THEN "" ELSE Head(pieces) \o Join(Tail(pieces))

\* '{}'.format(value), as in extension_from_parameters.
Format(v) == IF "int" \in DOMAIN v THEN IntToStr(v.int) ELSE Join(v.str)

Keys(d) == { d[i][1] : i \in 1..Len(d) }

\* d[k]
Value(d, k) == d[CHOOSE i \in 1..Len(d) : d[i][1] = k][2]

\* The keys of the model in the order of Python's string comparison.
KeyOrder ==
    <<"embed_hidden_size", "epochs", "query_hidden_size", "rnn_type", "sent_hidden_size">>

\* sorted(param_dict)
Sorted(d) == SelectSeq(KeyOrder, LAMBDA k : k \in Keys(d))

\* list(param_dict): the keys in insertion order.
Inserted(d) == [ i \in 1..Len(d) |-> d[i][1] ]

\* The loop of extension_from_parameters over the keys given.
RECURSIVE Extend(_, _)
Extend(d, keys) ==
    IF keys = << >> THEN ""
    ELSE (IF Head(keys) # "epochs"
          THEN "." \o Head(keys) \o "=" \o Format(Value(d, Head(keys)))
          ELSE "")
         \o Extend(d, Tail(keys))

\* Mutant of extension_from_parameters: the keys are not sorted.
ExtensionUnsorted(param_dict) == Extend(param_dict, Inserted(param_dict))

extension_from_parameters(param_dict) == Extend(param_dict, Sorted(param_dict))

\* defaults(): the arguments augment_parser adds, with their defaults.
DefaultParams ==
    << <<"rnn_type", [str |-> <<"LSTM">>]>>,
       <<"embed_hidden_size", [int |-> 50]>>,
       <<"sent_hidden_size", [int |-> 100]>>,
       <<"query_hidden_size", [int |-> 100]>> >>

\* run: for key in default_params: if key not in param_dict: param_dict[key] = ...
FillDefaults(d) == d \o SelectSeq(DefaultParams, LAMBDA kv : kv[1] \notin Keys(d))

\* hashlib.sha224(extension.encode('utf-8')).hexdigest(): one digest per text.
Sha224(text) == "sha224(" \o text \o ")"

\* run: model_name = '{}-{}.h5'.format(BNAME, hex_name)
ModelName(extension) == BNAME \o "-" \o Sha224(extension) \o ".h5"

\* run: model_mda_name = '{}-{}.pkl'.format(BNAME, hex_name)
ModelMdaName(extension) == BNAME \o "-" \o Sha224(extension) \o ".pkl"

\* The two file names run() computes for a param_dict (after the defaults are filled in).
Names(d) ==
    [ extension      |-> extension_from_parameters(d),
      model_name     |-> ModelName(extension_from_parameters(d)),
      model_mda_name |-> ModelMdaName(extension_from_parameters(d)) ]

\* run: the RNN layer chosen from rnn_type.
RNN(d) ==
    IF Format(Value(d, "rnn_type")) = "GRU" THEN "GRU"
    ELSE IF Format(Value(d, "rnn_type")) = "SimpleRNN" THEN "SimpleRNN"
    ELSE "LSTM"

\* run, "if not resume": a new compiled model, not trained yet.
NewModel(d) == [ trained |-> 0, rnn |-> RNN(d) ]

\* model.fit(..., epochs=EPOCHS): the model is trained for EPOCHS more epochs.
Fit(model, EPOCHS) == [ model EXCEPT !.trained = @ + EPOCHS ]

\* pickle.dump(param_dict) / pickle.load: the dict, as a mapping.
AsMap(d) == [ k \in Keys(d) |-> Value(d, k) ]

\* os.path.exists(model_name) and os.path.exists(model_mda_name)
Exists(files, names) ==
    names.model_name \in DOMAIN files /\ names.model_mda_name \in DOMAIN files

\* Mutant of Resume: a checkpoint with as many epochs as requested is resumed too.
ResumeOnEqual(found, initial_epoch, epochs) == found /\ initial_epoch <= epochs

\* run: resume is set when the checkpoint exists and initial_epoch < param_dict['epochs'].
Resume(found, initial_epoch, epochs) == found /\ initial_epoch < epochs

\* run(param_dict) to its return.
Run(param_dict) ==
    /\ runs < MaxRuns
    /\ LET d             == FillDefaults(param_dict)
           EPOCHS        == Value(d, "epochs").int
           names         == Names(d)
           found         == Exists(fs, names)
           initial_epoch == IF found THEN fs[names.model_mda_name]["epochs"].int ELSE 0
           resume        == Resume(found, initial_epoch, EPOCHS)
           model         == IF resume THEN fs[names.model_name] ELSE NewModel(d)
           fitted        == Fit(model, EPOCHS)
       IN  /\ fs' = (names.model_name :> fitted) @@ (names.model_mda_name :> AsMap(d)) @@ fs
           /\ lastRun' = [ param_dict     |-> d,
                           model_name     |-> names.model_name,
                           model_mda_name |-> names.model_mda_name,
                           initial_epoch  |-> initial_epoch,
                           resume         |-> resume,
                           trained        |-> fitted.trained,
                           raised         |-> FALSE ]
    /\ runs' = runs + 1
    /\ UNCHANGED <<pair, named>>
    /\ UNCHANGED <<balsamVars, lazyVars>>

\* run(param_dict) when stage_in raises: the error is printed and raised again.
RunStageInFails(param_dict) ==
    /\ runs < MaxRuns
    /\ lastRun' = [ param_dict |-> FillDefaults(param_dict), raised |-> TRUE ]
    /\ UNCHANGED <<fs, runs, pair, named>>
    /\ UNCHANGED <<balsamVars, lazyVars>>

\* The names run() computes for the two configurations of pair.
NamePair ==
    /\ pair # None
    /\ named = None
    /\ named' = [ a |-> Names(FillDefaults(pair.a)), b |-> Names(FillDefaults(pair.b)) ]
    /\ UNCHANGED <<fs, runs, lastRun, pair>>
    /\ UNCHANGED <<balsamVars, lazyVars>>

\* The orders in which the keys K can have been inserted.
Orders(K) ==
    { o \in [1..Cardinality(K) -> K] : \A i, j \in 1..Cardinality(K) : i # j => o[i] # o[j] }

\* The dicts with the keys K, the value of k drawn from vals[k], in every insertion order.
DictsOf(K, vals) ==
    { [ i \in 1..Cardinality(K) |-> <<o[i], v[o[i]]>> ] :
        o \in Orders(K),
        v \in { w \in [K -> UNION { vals[k] : k \in K }] : \A k \in K : w[k] \in vals[k] } }

EpochValues == { [int |-> 5 * u] : u \in 1..MaxEpochUnits }

\* The configurations run() is called with.
RunDicts ==
    LET vals == [ epochs   |-> EpochValues,
                  rnn_type |-> { [str |-> <<"GRU">>], [str |-> <<"LSTM">>] } ]
    IN  DictsOf({"epochs"}, vals) \cup DictsOf({"epochs", "rnn_type"}, vals)

\* The configurations whose names are compared: ints and strings, among them
\* strings that hold the separators of the extension.
PairDicts ==
    LET vals == [ epochs           |-> EpochValues,
                  rnn_type         |-> { [str |-> <<"1">>], [str |-> <<"GRU">>],
                                         [str |-> <<"1", ".", "sent_hidden_size", "=", "2">>] },
                  sent_hidden_size |-> { [int |-> 2], [str |-> <<"2">>], [int |-> 100],
                                         [str |-> <<"2", ".", "sent_hidden_size", "=", "2">>] } ]
    IN  DictsOf({"epochs", "rnn_type", "sent_hidden_size"}, vals)

(***************************************************************************)
(* LazyImport (deephyper/problem/__init__.py)                              *)
(***************************************************************************)
\* __name__ of the package, given to LazyImport at the end of the module.
MODULE_NAME == "deephyper.problem"

\* LazyImport.attrs, each entry "submodule:attribute" in its three parts.
attrs ==
    [ NaProblem |-> <<"_neuralarchitecture", ":", "NaProblem">>,
      HpProblem |-> <<"_hyperparameter", ":", "HpProblem">> ]

\* attr.split(":")
Split(attr) == [ sub_module_name |-> attr[1], attr_name |-> attr[3] ]

\* f"{self.module_name}.{sub_module_name}"
FullModuleName(sub_module_name) == MODULE_NAME \o "." \o sub_module_name

SubModules == { FullModuleName(Split(attrs[n]).sub_module_name) : n \in DOMAIN attrs }

\* The names Python finds on the LazyImport object itself (instance and class
\* attributes), for which __getattr__ is not called.
OwnAttributes == {"module_name", "module", "attrs", "cache"}

\* Names bound in the original module (from ConfigSpace import *, and its own).
ModuleAttributes == {"ConfigurationSpace", "LazyImport", "sys", "importlib"}

\* The names looked up on the namespace.
AccessNames == {"NaProblem", "HpProblem", "ConfigurationSpace", "cache", "no_such_name"}

\* self.module.__getattribute__(name)
ModuleGetattribute(name) ==
    IF name \in ModuleAttributes
    THEN [ by |-> "module", kind |-> "attribute", name |-> name ]
    ELSE [ by |-> "module", kind |-> "AttributeError", name |-> name ]

\* getattr(module, attr_name) of a submodule whose code ran for the load-th time.
SubModuleAttr(full_module_name, attr_name, load) ==
    [ by |-> "import", kind |-> "attribute", name |-> attr_name,
      of |-> full_module_name, load |-> load ]

\* The module loaded: the package is in sys.modules, replaced by the LazyImport
\* object; the class attribute cache is empty; no submodule has run.
LazyInit ==
    /\ cache = << >>
    /\ sys_modules = {MODULE_NAME}
    /\ executed = [ m \in SubModules |-> 0 ]
    /\ accesses = << >>

\* Mutant of GetattrLazy: the attribute is imported and returned but not cached.
GetattrLazyUncached(name) ==
    /\ Len(accesses) < MaxAccesses
    /\ name \notin OwnAttributes
    /\ name \notin DOMAIN cache
    /\ name \in DOMAIN attrs
    /\ LET full == FullModuleName(Split(attrs[name]).sub_module_name)
           load == IF full \in sys_modules THEN executed[full] ELSE executed[full] + 1
       IN  /\ executed'    = [ executed EXCEPT ![full] = load ]
           /\ sys_modules' = sys_modules \cup {full}
           /\ accesses'    = Append(accesses,
                  [ name |-> name,
                    answer |-> SubModuleAttr(full, Split(attrs[name]).attr_name, load) ])
    /\ UNCHANGED cache
    /\ UNCHANGED <<balsamVars, runVars>>

\* __getattr__, "test cache first": the cached attribute is returned.
GetattrCached(name) ==
    /\ Len(accesses) < MaxAccesses
    /\ name \notin OwnAttributes
    /\ name \in DOMAIN cache
    /\ accesses' = Append(accesses,
           [ name |-> name, answer |-> [ cache[name] EXCEPT !.by = "cache" ] ])
    /\ UNCHANGED <<cache, sys_modules, executed>>
    /\ UNCHANGED <<balsamVars, runVars>>

\* __getattr__, "test loadable attributes": importlib.import_module runs the
\* submodule unless sys.modules has it; the attribute is cached and returned.
GetattrLazy(name) ==
    /\ Len(accesses) < MaxAccesses
    /\ name \notin OwnAttributes
    /\ name \notin DOMAIN cache
    /\ name \in DOMAIN attrs
    /\ LET full == FullModuleName(Split(attrs[name]).sub_module_name)
           load == IF full \in sys_modules THEN executed[full] ELSE executed[full] + 1
           attr == SubModuleAttr(full, Split(attrs[name]).attr_name, load)
       IN  /\ executed'    = [ executed EXCEPT ![full] = load ]
           /\ sys_modules' = sys_modules \cup {full}
           /\ cache'       = (name :> attr) @@ cache
           /\ accesses'    = Append(accesses, [ name |-> name, answer |-> attr ])
    /\ UNCHANGED <<balsamVars, runVars>>

\* __getattr__, else branch: the original module answers.
GetattrModule(name) ==
    /\ Len(accesses) < MaxAccesses
    /\ name \notin OwnAttributes
    /\ name \notin DOMAIN cache
    /\ name \notin DOMAIN attrs
    /\ accesses' = Append(accesses, [ name |-> name, answer |-> ModuleGetattribute(name) ])
    /\ UNCHANGED <<cache, sys_modules, executed>>
    /\ UNCHANGED <<balsamVars, runVars>>

\* An attribute the LazyImport object has itself: found by the normal lookup,
\* __getattr__ is not called.
OwnAccess(name) ==
    /\ Len(accesses) < MaxAccesses
    /\ name \in OwnAttributes
    /\ accesses' = Append(accesses,
           [ name |-> name, answer |-> [ by |-> "shim", kind |-> "attribute", name |-> name ] ])
    /\ UNCHANGED <<cache, sys_modules, executed>>
    /\ UNCHANGED <<balsamVars, runVars>>

(***************************************************************************)
(* Initial values of the parts a specification does not move.              *)
(***************************************************************************)
RunIdle ==
    /\ fs = << >>
    /\ runs = 0
    /\ lastRun = None
    /\ pair = None
    /\ named = None

LazyIdle ==
    /\ cache = << >>
    /\ sys_modules = {}
    /\ executed = << >>
    /\ accesses = << >>

(***************************************************************************)
(* Spec: evaluators built by concurrent processes against one database,    *)
(* and the tasks they submit.                                              *)
(***************************************************************************)
Init == BalsamInit /\ RunIdle /\ LazyIdle

Next ==
    \/ \E p \in Procs, f \in RunFunctions : Construct(p, f)
    \/ \E p \in Procs : GetFound(p)
    \/ \E p \in Procs : GetDoesNotExist(p)
    \/ \E p \in Procs : GetRaises(p)
    \/ \E p \in Procs : Save(p)
    \/ \E p \in Procs : SaveRaises(p)
    \/ \E p \in Procs, n \in AppNames, x \in PlainConfigs, cj \in CurrentJobs :
           EvalExec(p, n, x, cj)

Spec == Init /\ [][Next]_vars

(***************************************************************************)
(* SpecSeq: the constructions do not overlap (a constructor starts only    *)
(* when no other is running).                                              *)
(***************************************************************************)
NoConstructor == \A q \in Procs : pc[q] = "idle"

NextSeq ==
    \/ \E p \in Procs, f \in RunFunctions : NoConstructor /\ Construct(p, f)
    \/ \E p \in Procs : GetFound(p)
    \/ \E p \in Procs : GetDoesNotExist(p)
    \/ \E p \in Procs : GetRaises(p)
    \/ \E p \in Procs : Save(p)
    \/ \E p \in Procs : SaveRaises(p)
    \/ \E p \in Procs, n \in AppNames, x \in PlainConfigs, cj \in CurrentJobs :
           EvalExec(p, n, x, cj)

SpecSeq == Init /\ [][NextSeq]_vars

(***************************************************************************)
(* SpecEval: one process builds evaluators and submits configurations of   *)
(* every shape.                                                            *)
(***************************************************************************)
Driver == 1

NextEval ==
    \/ \E f \in RunFunctions : Construct(Driver, f)
    \/ GetFound(Driver)
    \/ GetDoesNotExist(Driver)
    \/ Save(Driver)
    \/ \E n \in AppNames, x \in Configs, cj \in CurrentJobs : EvalExec(Driver, n, x, cj)

SpecEval == Init /\ [][NextEval]_vars

(***************************************************************************)
(* SpecTasks: one process builds evaluators and submits tasks, which the   *)
(* launcher runs to their end; the futures are then resolved.              *)
(***************************************************************************)
NextTasks ==
    \/ \E f \in RunFunctions : Construct(Driver, f)
    \/ GetFound(Driver)
    \/ GetDoesNotExist(Driver)
    \/ Save(Driver)
    \/ \E n \in AppNames, x \in PlainConfigs, cj \in CurrentJobs :
           EvalExec(Driver, n, x, cj)
    \/ \E j \in 1..Len(jobs) : JobStart(j)
    \/ \E j \in 1..Len(jobs), out \in Outputs : JobFinish(j, out)
    \/ \E j \in 1..Len(jobs) : JobFail(j)
    \/ \E j \in 1..Len(jobs) : FutureResolve(j)

SpecTasks == Init /\ [][NextTasks]_vars

(***************************************************************************)
(* Properties of the BalsamEvaluator.                                      *)
(***************************************************************************)
Errors == {"OperationalError", "MultipleObjectsReturned", "IntegrityError"}

\* C1: under every interleaving of constructions for the same run function the
\* registry never holds more than one ApplicationDefinition of a name (lookup and
\* create act as one atomic step).
C1_AtMostOneAppDef == \A n \in AppNames : registry[n] <= 1

\* C2: a construction that finds the ApplicationDefinition creates nothing and
\* leaves the registry unchanged; a record is created only after the lookup found
\* none, one at a time; constructions that do not overlap leave exactly one record
\* for an entry-point they were built for.
C2_IdempotentRegistration ==
    [][ /\ \A p \in Procs :
              (pc[p] = "get" /\ pc'[p] # "get" /\ registry[AppName(ctor[p])] >= 1)
                  => (registry' = registry /\ created' = created /\ pc'[p] = "idle")
        /\ \A n \in AppNames :
              registry'[n] # registry[n]
                  => /\ registry[n] = 0
                     /\ registry'[n] = 1
                     /\ \E p \in Procs : pc[p] = "save" /\ AppName(ctor[p]) = n
        /\ \A n \in AppNames, p \in Procs :
              evaluators'[p][n] > 0 => registry'[n] = 1
      ]_vars

C2_Witness ==
    \E n \in AppNames, p, q \in Procs :
        /\ p # q
        /\ registry[n] = 1
        /\ created[p][n] = 1 /\ evaluators[p][n] >= 1
        /\ created[q][n] = 0 /\ evaluators[q][n] >= 1

\* C3 as stated: within one process the registration step (the lookup and maybe
\* the create) runs at most once for each entry-point.
C3_RegistrationStepAtMostOnce ==
    \A p \in Procs, n \in AppNames : lookups[p][n] <= 1

\* C3 as amended: within one process at most one ApplicationDefinition is created
\* for each entry-point, however many evaluators are built for it; the lookup runs
\* for every construction.
C3_CreatedAtMostOnce ==
    \A p \in Procs, n \in AppNames :
        /\ created[p][n] <= 1
        /\ evaluators[p][n] <= lookups[p][n]

C3_Witness ==
    \E p \in Procs, n \in AppNames :
        evaluators[p][n] >= 2 /\ lookups[p][n] >= 2 /\ created[p][n] = 1

\* C4: a task is added for an application only when an ApplicationDefinition of
\* that name exists, by a process that obtained an evaluator for it; a constructor
\* that raised gives its caller no evaluator.
C4_RegistrationPrecedesSubmission ==
    [][ /\ \A j \in 1..Len(jobs') : registry'[jobs'[j].application] >= 1
        /\ Len(jobs') > Len(jobs)
              => /\ evaluators[lastCall'.by][lastCall'.add_job.application] > 0
                 /\ jobs'[Len(jobs')].application = lastCall'.add_job.application
        /\ \A p \in Procs :
              (pc[p] # "idle" /\ pc'[p] = "idle" /\ raised'[p] # "ok")
                  => (raised'[p] \in Errors /\ evaluators' = evaluators /\ jobs' = jobs)
        /\ \A p \in Procs, n \in AppNames : evaluators'[p][n] > 0 => registry'[n] >= 1
      ]_vars

C4_Witness ==
    /\ Len(jobs) >= 1
    /\ \E p \in Procs : raised[p] \in Errors
    /\ registry[jobs[1].application] >= 1

\* C5: each resource key submitted with the task is x[k] when k is a key of x and
\* else the default (1, 1, 64, WORKERS_PER_NODE); no other key of x is submitted
\* as a resource, and x is left as it was.
C5_ResourceRequest ==
    lastCall # None =>
        LET x   == lastCall.x_before
            res == lastCall.add_job.resources
            Given(k, default) == IF k \in DOMAIN x THEN x[k] ELSE default
        IN  /\ DOMAIN res = ResourceKeys
            /\ res["num_nodes"]          = Given("num_nodes", 1)
            /\ res["ranks_per_node"]     = Given("ranks_per_node", 1)
            /\ res["threads_per_rank"]   = Given("threads_per_rank", 64)
            /\ res["node_packing_count"] = Given("node_packing_count", WORKERS_PER_NODE)
            /\ lastCall.x_after = x

C5_Witness ==
    /\ lastCall # None
    /\ DOMAIN lastCall.x_before = {"num_nodes", "epochs"}
    /\ lastCall.add_job.resources["num_nodes"] = 2
    /\ lastCall.add_job.resources["threads_per_rank"] = 64

\* C6: the future of a failed job yields FAIL_RETURN_VALUE through _on_fail, which
\* does not raise; a failure never goes through _on_done, and a finished job never
\* through _on_fail.
C6_FailedYieldsSentinel ==
    \A j \in 1..Len(jobs) :
        jobs[j].result # None =>
            /\ jobs[j].state = "FAILED" =>
                  /\ jobs[j].result.callback = "_on_fail"
                  /\ ~ jobs[j].result.raises
                  /\ jobs[j].result.value = FAIL_RETURN_VALUE
            /\ jobs[j].state # "FAILED" => jobs[j].result.callback = "_on_done"

C6_Witness ==
    \E j \in 1..Len(jobs) :
        /\ jobs[j].state = "FAILED"
        /\ jobs[j].result # None
        /\ jobs[j].result.value = FAIL_RETURN_VALUE

\* C8: a lookup that raises anything but ObjectDoesNotExist ends the constructor
\* with that exception: one lookup, no record created, the registry as it was, no
\* evaluator.
C8_LookupFailurePropagates ==
    [][ \A p \in Procs :
          (/\ pc[p] = "get"
           /\ pc'[p] # "get"
           /\ \/ registry[AppName(ctor[p])] > 1
              \/ raised'[p] \in {"OperationalError", "MultipleObjectsReturned"})
          => /\ pc'[p] = "idle"
             /\ raised'[p] \in {"OperationalError", "MultipleObjectsReturned"}
             /\ registry' = registry
             /\ created' = created
             /\ evaluators' = evaluators
             /\ lookups'[p][AppName(ctor[p])] = lookups[p][AppName(ctor[p])] + 1
      ]_vars

C8_Witness ==
    \E p \in Procs : raised[p] = "MultipleObjectsReturned" /\ pc[p] = "idle"

(***************************************************************************)
(* SpecRun: run() is called again and again in one working directory.      *)
(***************************************************************************)
BalsamIdle == BalsamInit

InitRun == BalsamIdle /\ RunIdle /\ LazyIdle

NextRun ==
    \/ \E param_dict \in RunDicts : Run(param_dict)
    \/ \E param_dict \in RunDicts : RunStageInFails(param_dict)

SpecRun == InitRun /\ [][NextRun]_vars

(***************************************************************************)
(* SpecNames: the file names of two configurations.                        *)
(***************************************************************************)
InitNames ==
    /\ BalsamIdle /\ LazyIdle
    /\ fs = << >> /\ runs = 0 /\ lastRun = None
    /\ pair \in [ a : PairDicts, b : PairDicts ]
    /\ named = None

NextNames == NamePair

SpecNames == InitNames /\ [][NextNames]_vars

(***************************************************************************)
(* Properties of babi_rnn.run.                                             *)
(***************************************************************************)

\* C7: with the checkpoint and metadata files of the configuration present, run
\* resumes (trains the loaded model) exactly when the stored epochs are fewer than
\* the requested ones -- stored 5, requested 10: resumes; stored 10, requested 10:
\* does not -- and otherwise trains a new model.
C7_ResumeWhenFewerEpochs ==
    [][ runs' = runs + 1 =>
          LET requested == Value(lastRun'.param_dict, "epochs").int
              h5        == lastRun'.model_name
              pkl       == lastRun'.model_mda_name
              present   == h5 \in DOMAIN fs /\ pkl \in DOMAIN fs
              stored    == fs[pkl]["epochs"].int
          IN  /\ present => (lastRun'.resume <=> stored < requested)
              /\ (present /\ stored = 5 /\ requested = 10) => lastRun'.resume
              /\ (present /\ stored = 10 /\ requested = 10) => ~ lastRun'.resume
              /\ ~ present => ~ lastRun'.resume
              /\ lastRun'.resume => fs'[h5].trained = fs[h5].trained + requested
              /\ ~ lastRun'.resume => fs'[h5].trained = requested
      ]_vars

C7_Witness ==
    /\ "resume" \in DOMAIN lastRun
    /\ lastRun.resume
    /\ lastRun.initial_epoch = 5
    /\ Value(lastRun.param_dict, "epochs").int = 10

\* C11: after any sequence of completed run() calls the 'epochs' value stored in
\* the metadata file of a configuration equals the number of epochs the model
\* saved in its checkpoint file has been trained for.
C11_StoredEpochsAreTrainedEpochs ==
    \A param_dict \in RunDicts :
        LET names == Names(FillDefaults(param_dict))
        IN  Exists(fs, names) =>
                fs[names.model_mda_name]["epochs"].int = fs[names.model_name].trained

\* The (key, value) pairs of a configuration other than 'epochs'.
NonEpochPairs(d) == { d[i] : i \in { j \in 1..Len(d) : d[j][1] # "epochs" } }

NonEpochKeys(d) == Keys(d) \ {"epochs"}

\* The printed form of a value holds '='.
HoldsEquals(v) == "str" \in DOMAIN v /\ \E i \in 1..Len(v.str) : v.str[i] = "="

\* C9 as stated: configurations with the same non-epoch (key, value) pairs get the
\* same file names, whatever their epochs and insertion order; configurations that
\* differ in the value of a non-epoch key get different extension strings.
C9_NamesByNonEpochPairs ==
    named # None =>
        /\ NonEpochPairs(pair.a) = NonEpochPairs(pair.b)
              => /\ named.a.model_name = named.b.model_name
                 /\ named.a.model_mda_name = named.b.model_mda_name
        /\ (\E k \in NonEpochKeys(pair.a) \cap NonEpochKeys(pair.b) :
                Value(pair.a, k) # Value(pair.b, k))
              => named.a.extension # named.b.extension

\* C9 as amended: the extension strings differ when some non-epoch value differs
\* in its printed form and no non-epoch value's printed form holds '='.
C9_NamesByPrintedValues ==
    named # None =>
        /\ NonEpochPairs(pair.a) = NonEpochPairs(pair.b)
              => /\ named.a.model_name = named.b.model_name
                 /\ named.a.model_mda_name = named.b.model_mda_name
        /\ (/\ \E k \in NonEpochKeys(pair.a) \cap NonEpochKeys(pair.b) :
                  Format(Value(pair.a, k)) # Format(Value(pair.b, k))
            /\ \A k \in NonEpochKeys(pair.a) : ~ HoldsEquals(Value(pair.a, k))
            /\ \A k \in NonEpochKeys(pair.b) : ~ HoldsEquals(Value(pair.b, k)))
              => named.a.extension # named.b.extension

C9_Witness ==
    /\ named # None
    /\ Inserted(pair.a) # Inserted(pair.b)
    /\ Value(pair.a, "epochs") # Value(pair.b, "epochs")
    /\ NonEpochPairs(pair.a) = NonEpochPairs(pair.b)
    /\ named.a.model_name = named.b.model_name
    /\ \E k \in NonEpochKeys(pair.a) : Format(Value(pair.a, k)) = "100"

(***************************************************************************)
(* SpecLazy: attribute accesses on deephyper.problem after it was loaded.  *)
(***************************************************************************)
InitLazy == BalsamIdle /\ RunIdle /\ LazyInit

NextLazy ==
    \/ \E name \in AccessNames : GetattrCached(name)
    \/ \E name \in AccessNames : GetattrLazy(name)
    \/ \E name \in AccessNames : GetattrModule(name)
    \/ \E name \in AccessNames : OwnAccess(name)

SpecLazy == InitLazy /\ [][NextLazy]_vars

\* The places of the log where name was accessed.
AccessesOf(name) == { i \in 1..Len(accesses) : accesses[i].name = name }

\* What the lazy names have in common, in both statements of C10: a submodule has
\* run exactly when its name was accessed, and then once; the cache holds exactly
\* the lazy names accessed; the accesses of a name all got the same object.
LazyOnce ==
    /\ \A n \in DOMAIN attrs :
          LET full == FullModuleName(Split(attrs[n]).sub_module_name)
          IN  /\ executed[full] = (IF AccessesOf(n) = {} THEN 0 ELSE 1)
              /\ full \in sys_modules <=> AccessesOf(n) # {}
              /\ n \in DOMAIN cache <=> AccessesOf(n) # {}
              /\ \A i, j \in AccessesOf(n) :
                    /\ accesses[i].answer.kind = "attribute"
                    /\ accesses[i].answer.of = full
                    /\ accesses[i].answer.name = Split(attrs[n]).attr_name
                    /\ accesses[i].answer.load = accesses[j].answer.load
              /\ \A i \in AccessesOf(n) :
                    accesses[i].answer.by = (IF \E j \in AccessesOf(n) : j < i
                                             THEN "cache" ELSE "import")
    /\ DOMAIN cache \subseteq DOMAIN attrs

\* C10 as stated: the submodule of a lazy name is imported at the first access of
\* the name and never again, later accesses get the cached object, the cache holds
\* only names of attrs, and any other name is answered by the original module.
C10_LazyOnceOthersByModule ==
    /\ LazyOnce
    /\ \A i \in 1..Len(accesses) :
          accesses[i].name \notin DOMAIN attrs => accesses[i].answer.by = "module"

\* C10 as amended: a name outside attrs is answered by the original module unless
\* the LazyImport object has it itself (module_name, module, attrs, cache), and
\* then by that object.
C10_LazyOnceOthersByModuleOrShim ==
    /\ LazyOnce
    /\ \A i \in 1..Len(accesses) :
          accesses[i].name \notin DOMAIN attrs =>
              accesses[i].answer.by =
                  (IF accesses[i].name \in OwnAttributes THEN "shim" ELSE "module")

C10_Witness ==
    /\ AccessesOf("NaProblem") = {1, 3}
    /\ AccessesOf("ConfigurationSpace") = {2}
    /\ AccessesOf("cache") = {4}
    /\ DOMAIN cache = {"NaProblem"}
    /\ executed[FullModuleName("_neuralarchitecture")] = 1
    /\ executed[FullModuleName("_hyperparameter")] = 0

====
